---- MODULE Spec2Model ----
(***************************************************************************)
(* Model of the typed-handle layer (crates/bevy_atelier/src/handle.rs) and *)
(* of the asset type registry (crates/bevy_atelier/src/asset_type_         *)
(* registry.rs), and of Mesh::get_vertex_buffer_bytes                      *)
(* (bevy_render/src/mesh.rs).                                              *)
(*                                                                         *)
(* Handles wrap atelier_loader's GenericHandle.  The handle primitive      *)
(* (new / clone / drop and the RefOp messages they send on the AssetServer *)
(* channel), the AtomicHandleAllocator and the registry lookup get_storage *)
(* live outside the files modelled here; they are modelled from the        *)
(* written specification and are marked as such where they are defined.    *)
(***************************************************************************)
EXTENDS Integers, Sequences, FiniteSets, TLC

(* ------------------------------ bounds -------------------------------- *)
MaxHandles == 3
MaxAlloc == 2
MaxOps == 5
MaxOpCalls == 2
MaxAttrs == 2
MaxVerts == 2

(* ---------------------------- constants ------------------------------- *)
\* handle.rs:23  DEFAULT_HANDLE_ID = HandleId(LoadHandle(1))
DEFAULT_HANDLE_ID == 1

\* mutant: the allocator starts at the reserved id
HANDLE_ALLOCATOR_new_FromSentinel == DEFAULT_HANDLE_ID

\* handle.rs:25  AtomicHandleAllocator::new(2)
HANDLE_ALLOCATOR_new == 2

MainThread == "main"
Threads == {"main", "worker"}
Slots == 1..MaxHandles
\* the asset types T a handle may be tagged with / the registry may know
AssetTypes == {"Mesh", "Texture", "Shader"}
HandleTypes == {"Mesh", "Texture"}
Untyped == "Untyped"
Markers == HandleTypes \cup {Untyped}
NoHandle == [id |-> 0, marker |-> "none"]
NoId == 0
\* the resources of the execution context: the AssetServer and the Assets<T> storages
AssetServer == <<"AssetServer">>
Assets(T) == <<"Assets", T>>

VARIABLES
    HANDLE_ALLOCATOR,  \* the atomic counter of the global allocator
    allocated,         \* history: ids returned by allocate(), in order
    pending,           \* per thread: id returned by allocate(), not yet wrapped
    handles,           \* slot -> live handle (id, marker) or NoHandle
    chan,              \* the ownership-signal channel: every RefOp sent so far
    log,               \* history: per thread, the signals of its operations in program order
    resources,         \* the execution context: names of the resources present
    registrations,     \* AssetTypeRegistry.registrations
    storage,           \* per asset type: number of operations applied to Assets<T>
    register_calls,    \* history: types T for which register::<T>() was called
    vertex_call,       \* a call of Mesh::get_vertex_buffer_bytes: its mesh, descriptor, result
    last               \* the operation performed by the last step

vars == <<HANDLE_ALLOCATOR, allocated, pending, handles, chan, log, resources,
          registrations, storage, register_calls, vertex_call, last>>

registryVars == <<resources, registrations, storage, register_calls>>
handleVars == <<HANDLE_ALLOCATOR, allocated, pending, handles, chan, log>>

(* ------------------------------ helpers ------------------------------- *)
Op(name, t, src, dst, i, result, invoked) ==
    [op |-> name, by |-> t, src |-> src, dst |-> dst, id |-> i,
     result |-> result, invoked |-> invoked]

NoOp == Op("none", "none", 0, 0, 0, "none", "none")

FreeSlots == {s \in Slots : handles[s] = NoHandle}
LiveSlots == {s \in Slots : handles[s] # NoHandle}
HasFree == FreeSlots # {}
FirstFree == CHOOSE s \in FreeSlots : \A r \in FreeSlots : s <= r

\* HandleId(LoadHandle): #[derive(Hash)] feeds the raw integer to the hasher
HandleId_hash(i) == (i * 31 + 17) % 251

(* ----------------- atelier_loader handle primitive -------------------- *)
RefOp(kind, i, t) == [op |-> kind, id |-> i, by |-> t]

\* GenericHandle::new(sender, id): "AddReference(id) emitted on handle construction"
GenericHandle_new(c, i, t) == Append(c, RefOp("AddReference", i, t))

\* GenericHandle::clone: "each clone increments a shared reference count"
GenericHandle_clone(c, i, t) == Append(c, RefOp("AddReference", i, t))

\* GenericHandle::drop: "RemoveReference(id) emitted on drop"
GenericHandle_drop(c, i, t) == Append(c, RefOp("RemoveReference", i, t))

\* GenericHandle: PartialEq / Hash are by load handle
GenericHandle_eq(a, b) == a.id = b.id
GenericHandle_hash(a) == HandleId_hash(a.id)

\* program order of one thread: the signals its operations send, as they are executed
Logged(t, ops) == [log EXCEPT ![t] = @ \o ops]
Sig(kind, i) == [op |-> kind, id |-> i]

(* --------------------------- handle.rs -------------------------------- *)
\* Handle::id
id(h) == h.id

\* mutant: a derived PartialEq that also compares the type tag
Handle_eq_WithMarker(a, b) == a.id = b.id /\ a.marker = b.marker

\* impl PartialEq for Handle<T>: self.handle == other.handle
Handle_eq(a, b) == GenericHandle_eq(a, b)

\* mutant: a derived Hash that also feeds the type tag
Handle_hash_WithMarker(a) == GenericHandle_hash(a) + Len(a.marker)

\* impl Hash for Handle<T>: self.handle.hash(state)
Handle_hash(a) == GenericHandle_hash(a)

\* AtomicHandleAllocator::alloc: one atomic fetch-and-increment
allocate(t) ==
    /\ pending[t] = NoId
    /\ Len(allocated) < MaxAlloc
    /\ pending' = [pending EXCEPT ![t] = HANDLE_ALLOCATOR]
    /\ allocated' = Append(allocated, HANDLE_ALLOCATOR)
    /\ HANDLE_ALLOCATOR' = HANDLE_ALLOCATOR + 1
    /\ last' = Op("allocate", t, 0, 0, HANDLE_ALLOCATOR, "ok", "none")
    /\ UNCHANGED <<handles, chan, log, registryVars, vertex_call>>

\* the allocated id is wrapped in a Handle<T> (GenericHandle::new)
new_handle(t, T) ==
    /\ pending[t] # NoId
    /\ HasFree
    /\ Len(chan) < MaxOps
    /\ AssetServer \in resources
    /\ handles' = [handles EXCEPT ![FirstFree] = [id |-> pending[t], marker |-> T]]
    /\ chan' = GenericHandle_new(chan, pending[t], t)
    /\ log' = Logged(t, <<Sig("AddReference", pending[t])>>)
    /\ pending' = [pending EXCEPT ![t] = NoId]
    /\ last' = Op("new", t, 0, FirstFree, pending[t], "ok", "none")
    /\ UNCHANGED <<HANDLE_ALLOCATOR, allocated, registryVars, vertex_call>>

\* mutant: the default handle takes the allocator's next id
from_resources_Allocating(t, m) ==
    /\ AssetServer \in resources
    /\ HasFree
    /\ Len(chan) < MaxOps
    /\ handles' = [handles EXCEPT ![FirstFree] = [id |-> HANDLE_ALLOCATOR, marker |-> m]]
    /\ chan' = GenericHandle_new(chan, HANDLE_ALLOCATOR, t)
    /\ log' = Logged(t, <<Sig("AddReference", HANDLE_ALLOCATOR)>>)
    /\ last' = Op("from_resources", t, 0, FirstFree, HANDLE_ALLOCATOR, "ok", "none")
    /\ UNCHANGED <<HANDLE_ALLOCATOR, allocated, pending, registryVars, vertex_call>>

\* impl FromResources for Handle<T> / HandleUntyped (m = Untyped)
from_resources(t, m) ==
    /\ AssetServer \in resources      \* .expect("No AssetServer in resources")
    /\ HasFree
    /\ Len(chan) < MaxOps
    /\ handles' = [handles EXCEPT ![FirstFree] = [id |-> DEFAULT_HANDLE_ID, marker |-> m]]
    /\ chan' = GenericHandle_new(chan, DEFAULT_HANDLE_ID, t)
    /\ log' = Logged(t, <<Sig("AddReference", DEFAULT_HANDLE_ID)>>)
    /\ last' = Op("from_resources", t, 0, FirstFree, DEFAULT_HANDLE_ID, "ok", "none")
    /\ UNCHANGED <<HANDLE_ALLOCATOR, allocated, pending, registryVars, vertex_call>>

\* mutant: clone that copies the handle without signalling the owner
clone_NoSignal(t, s) ==
    /\ handles[s] # NoHandle
    /\ HasFree
    /\ Len(chan) < MaxOps
    /\ handles' = [handles EXCEPT ![FirstFree] = handles[s]]
    /\ last' = Op("clone", t, s, FirstFree, handles[s].id, "ok", "none")
    /\ UNCHANGED <<HANDLE_ALLOCATOR, allocated, pending, chan, log, registryVars, vertex_call>>

\* impl Clone for Handle<T>; #[derive(Clone)] for HandleUntyped
clone(t, s) ==
    /\ handles[s] # NoHandle
    /\ HasFree
    /\ Len(chan) < MaxOps
    /\ handles' = [handles EXCEPT ![FirstFree] =
                      [id |-> handles[s].id, marker |-> handles[s].marker]]
    /\ chan' = GenericHandle_clone(chan, handles[s].id, t)
    /\ log' = Logged(t, <<Sig("AddReference", handles[s].id)>>)
    /\ last' = Op("clone", t, s, FirstFree, handles[s].id, "ok", "none")
    /\ UNCHANGED <<HANDLE_ALLOCATOR, allocated, pending, registryVars, vertex_call>>

\* mutant: as_handle that re-tags a bitwise copy, sending nothing
as_handle_NoSignal(t, s, U) ==
    /\ handles[s] # NoHandle
    /\ handles[s].marker \in HandleTypes
    /\ HasFree
    /\ Len(chan) < MaxOps
    /\ handles' = [handles EXCEPT ![FirstFree] = [id |-> handles[s].id, marker |-> U]]
    /\ last' = Op("as_handle", t, s, FirstFree, handles[s].id, "ok", "none")
    /\ UNCHANGED <<HANDLE_ALLOCATOR, allocated, pending, chan, log, registryVars, vertex_call>>

\* mutant: as_handle that binds the new handle to a freshly allocated id
as_handle_Allocating(t, s, U) ==
    /\ handles[s] # NoHandle
    /\ handles[s].marker \in HandleTypes
    /\ HasFree
    /\ Len(chan) < MaxOps
    /\ handles' = [handles EXCEPT ![FirstFree] = [id |-> HANDLE_ALLOCATOR, marker |-> U]]
    /\ HANDLE_ALLOCATOR' = HANDLE_ALLOCATOR + 1
    /\ chan' = GenericHandle_new(chan, HANDLE_ALLOCATOR, t)
    /\ log' = Logged(t, <<Sig("AddReference", HANDLE_ALLOCATOR)>>)
    /\ last' = Op("as_handle", t, s, FirstFree, HANDLE_ALLOCATOR, "ok", "none")
    /\ UNCHANGED <<allocated, pending, registryVars, vertex_call>>

\* Handle::as_handle::<U>: Handle { handle: self.handle.clone(), marker }
as_handle(t, s, U) ==
    /\ handles[s] # NoHandle
    /\ handles[s].marker \in HandleTypes
    /\ HasFree
    /\ Len(chan) < MaxOps
    /\ handles' = [handles EXCEPT ![FirstFree] = [id |-> handles[s].id, marker |-> U]]
    /\ chan' = GenericHandle_clone(chan, handles[s].id, t)
    /\ log' = Logged(t, <<Sig("AddReference", handles[s].id)>>)
    /\ last' = Op("as_handle", t, s, FirstFree, handles[s].id, "ok", "none")
    /\ UNCHANGED <<HANDLE_ALLOCATOR, allocated, pending, registryVars, vertex_call>>

\* mutant: a conversion that clones the inner handle and keeps the source
into_untyped_Cloning(t, s) ==
    /\ handles[s] # NoHandle
    /\ handles[s].marker \in HandleTypes
    /\ HasFree
    /\ Len(chan) < MaxOps
    /\ handles' = [handles EXCEPT ![FirstFree] = [id |-> handles[s].id, marker |-> Untyped]]
    /\ chan' = GenericHandle_clone(chan, handles[s].id, t)
    /\ log' = Logged(t, <<Sig("AddReference", handles[s].id)>>)
    /\ last' = Op("into_untyped", t, s, FirstFree, handles[s].id, "ok", "none")
    /\ UNCHANGED <<HANDLE_ALLOCATOR, allocated, pending, registryVars, vertex_call>>

\* impl From<Handle<T>> for HandleUntyped: the inner handle is moved
into_untyped(t, s) ==
    /\ handles[s] # NoHandle
    /\ handles[s].marker \in HandleTypes
    /\ handles' = [handles EXCEPT ![s] = [id |-> handles[s].id, marker |-> Untyped]]
    /\ last' = Op("into_untyped", t, s, s, handles[s].id, "ok", "none")
    /\ UNCHANGED <<HANDLE_ALLOCATOR, allocated, pending, chan, log, registryVars, vertex_call>>

\* impl From<HandleUntyped> for Handle<T>: the inner handle is moved, T is not checked
into_typed(t, s, T) ==
    /\ handles[s] # NoHandle
    /\ handles[s].marker = Untyped
    /\ handles' = [handles EXCEPT ![s] = [id |-> handles[s].id, marker |-> T]]
    /\ last' = Op("into_typed", t, s, s, handles[s].id, "ok", "none")
    /\ UNCHANGED <<HANDLE_ALLOCATOR, allocated, pending, chan, log, registryVars, vertex_call>>

\* mutant: a drop that signals the owner twice
drop_Twice(t, s) ==
    /\ handles[s] # NoHandle
    /\ Len(chan) + 1 < MaxOps
    /\ handles' = [handles EXCEPT ![s] = NoHandle]
    /\ chan' = GenericHandle_drop(GenericHandle_drop(chan, handles[s].id, t),
                                  handles[s].id, t)
    /\ log' = Logged(t, <<Sig("RemoveReference", handles[s].id)>>)
    /\ last' = Op("drop", t, s, 0, handles[s].id, "ok", "none")
    /\ UNCHANGED <<HANDLE_ALLOCATOR, allocated, pending, registryVars, vertex_call>>

\* scope exit of a Handle<T> / HandleUntyped: its inner GenericHandle is dropped
drop(t, s) ==
    /\ handles[s] # NoHandle
    /\ Len(chan) < MaxOps
    /\ handles' = [handles EXCEPT ![s] = NoHandle]
    /\ chan' = GenericHandle_drop(chan, handles[s].id, t)
    /\ log' = Logged(t, <<Sig("RemoveReference", handles[s].id)>>)
    /\ last' = Op("drop", t, s, 0, handles[s].id, "ok", "none")
    /\ UNCHANGED <<HANDLE_ALLOCATOR, allocated, pending, registryVars, vertex_call>>

\* Property::set / apply: *self = prop.clone() -- the value is cloned, then the
\* old value of *self is dropped
set(t, s, v) ==
    /\ s # v
    /\ handles[s] # NoHandle
    /\ handles[v] # NoHandle
    /\ handles[s].marker = handles[v].marker     \* downcast_ref::<Self>() is Some
    /\ Len(chan) + 1 < MaxOps
    /\ handles' = [handles EXCEPT ![s] = [id |-> handles[v].id, marker |-> handles[v].marker]]
    /\ chan' = GenericHandle_drop(GenericHandle_clone(chan, handles[v].id, t),
                                  handles[s].id, t)
    /\ log' = Logged(t, <<Sig("AddReference", handles[v].id),
                          Sig("RemoveReference", handles[s].id)>>)
    /\ last' = Op("set", t, v, s, handles[v].id, "ok", "none")
    /\ UNCHANGED <<HANDLE_ALLOCATOR, allocated, pending, registryVars, vertex_call>>

(* --------------------- asset_type_registry.rs ------------------------- *)
\* <T as TypeUuid>::UUID, the identifier assigned to T by hand
TypeUuid_UUID(T) ==
    CASE T = "Mesh" -> "8628fe7c-a4e9-4056-91bd-fd6aa7817e39"
      [] T = "Texture" -> "6ea26da6-6cf8-4ea2-9986-1d7bf6c17d6f"
      [] T = "Shader" -> "d95bc916-6c55-4de3-9622-37e7b6969fda"

AssetTypeId(T) == <<"AssetTypeId", TypeUuid_UUID(T)>>
TypeIds == {AssetTypeId(T) : T \in AssetTypes}

\* mutant: an insert that replaces the whole map by the new entry
HashMap_insert_Only(m, k, v) == [x \in {k} |-> v]

\* HashMap::insert
HashMap_insert(m, k, v) == [x \in DOMAIN m \cup {k} |-> IF x = k THEN v ELSE m[x]]

\* mutant: the fetch function reports a missing storage instead of panicking
get_assets_storage_fn_Recoverable(T, res) ==
    IF Assets(T) \in res
    THEN [result |-> "Ok", invoked |-> T]
    ELSE [result |-> "StorageUnavailable", invoked |-> "none"]

\* the closure AssetRegistration::of::<T>() stores: resources.get_mut::<Assets<T>>()
\* .expect("Asset storage not found"), then cb(&asset_storage_cell)
get_assets_storage_fn(T, res) ==
    IF Assets(T) \in res
    THEN [result |-> "Ok", invoked |-> T]
    ELSE [result |-> "panic", invoked |-> "none"]

\* mutant: the stored closure fetches the storage of one fixed type
AssetRegistration_of_MeshStorage(T) ==
    [ty |-> AssetTypeId(T), get_assets_storage_fn |-> "Mesh"]

\* AssetRegistration::of::<T>()
AssetRegistration_of(T) == [ty |-> AssetTypeId(T), get_assets_storage_fn |-> T]

\* a panic unwinds the caller: nothing runs after it
Running == last.result # "panic"

\* mutant: every registration is keyed by one fixed identifier
register_FixedKey(T) ==
    /\ Running
    /\ registrations' = HashMap_insert(registrations, AssetTypeId("Mesh"),
                                       AssetRegistration_of(T))
    /\ register_calls' = register_calls \cup {T}
    /\ last' = Op("register", MainThread, 0, 0, AssetTypeId(T), "ok", "none")
    /\ UNCHANGED <<vertex_call, handleVars, resources, storage>>

\* AssetTypeRegistry::register::<T>()
register(T) ==
    /\ Running
    /\ registrations' = HashMap_insert(registrations, AssetTypeId(T),
                                       AssetRegistration_of(T))
    /\ register_calls' = register_calls \cup {T}
    /\ last' = Op("register", MainThread, 0, 0, AssetTypeId(T), "ok", "none")
    /\ UNCHANGED <<vertex_call, handleVars, resources, storage>>

\* the storage resource Assets<T> is added to the execution context
insert_resource(T) ==
    /\ Running
    /\ Assets(T) \notin resources
    /\ resources' = resources \cup {Assets(T)}
    /\ last' = Op("insert_resource", MainThread, 0, 0, AssetTypeId(T), "ok", "none")
    /\ UNCHANGED <<vertex_call, handleVars, registrations, storage, register_calls>>

\* get_storage(type_id, operation): look the registration up; if there is none fail with
\* UnregisteredAssetType, else call its fetch function with the operation
get_storage(ty) ==
    /\ Running
    /\ IF ty \notin DOMAIN registrations
       THEN /\ last' = Op("get_storage", MainThread, 0, 0, ty, "UnregisteredAssetType", "none")
            /\ storage' = storage
       ELSE LET out == get_assets_storage_fn(registrations[ty].get_assets_storage_fn,
                                              resources)
            IN  /\ out.invoked # "none" => storage[out.invoked] < MaxOpCalls
                /\ last' = Op("get_storage", MainThread, 0, 0, ty, out.result, out.invoked)
                /\ storage' = IF out.invoked = "none" THEN storage
                              ELSE [storage EXCEPT ![out.invoked] = @ + 1]
    /\ UNCHANGED <<vertex_call, handleVars, resources, registrations, register_calls>>

(* ------------------------------ mesh.rs ------------------------------- *)
\* VertexAttribute::POSITION, NORMAL, UV
AttributeNames == {"Vertex_Position", "Vertex_Normal", "Vertex_Uv"}

\* VertexAttributeValues::Float .. Float4 and the VertexFormat of the same name
VertexFormats == {"Float", "Float2", "Float3", "Float4"}

\* number of f32 components of one element: f32, [f32; 2], [f32; 3], [f32; 4]
Components(format) ==
    CASE format = "Float" -> 1
      [] format = "Float2" -> 2
      [] format = "Float3" -> 3
      [] format = "Float4" -> 4

\* VertexFormat::get_size: the size in bytes of one element of the format
VertexFormat_get_size(format) == 4 * Components(format)

\* the IEEE-754 single precision bit pattern of the float x, for x in 0..8
F32Bits(x) ==
    CASE x = 0 -> 0
      [] x = 1 -> 1065353216
      [] x = 2 -> 1073741824
      [] x = 3 -> 1077936128
      [] x = 4 -> 1082130432
      [] x = 5 -> 1084227584
      [] x = 6 -> 1086324736
      [] x = 7 -> 1088421888
      [] OTHER -> 1090519040

\* AsBytes of one f32: its four bytes, least significant first
F32_as_bytes(bits) ==
    <<bits % 256, (bits \div 256) % 256, (bits \div 65536) % 256,
      (bits \div 16777216) % 256>>

RECURSIVE Flatten(_)
Flatten(ss) == IF ss = <<>> THEN <<>> ELSE Head(ss) \o Flatten(Tail(ss))

\* the bytes of one element (a sequence of f32 bit patterns)
ElementBytes(elem) == Flatten([c \in DOMAIN elem |-> F32_as_bytes(elem[c])])

\* VertexAttributeValues::len
VertexAttributeValues_len(values) == Len(values.elems)

\* VertexAttributeValues::get_bytes: values.as_bytes()
get_bytes(values) == Flatten([v \in DOMAIN values.elems |-> ElementBytes(values.elems[v])])

\* slice::chunks(size): consecutive chunks of size bytes, the last one possibly shorter
chunks(bytes, size) ==
    [i \in 1..((Len(bytes) + size - 1) \div size) |->
        SubSeq(bytes, (i - 1) * size + 1,
               IF i * size < Len(bytes) THEN i * size ELSE Len(bytes))]

\* .iter().find(|a| vertex_attribute.name == a.name): index of the first mesh attribute
\* of that name, 0 if there is none
find(attributes, name) ==
    IF \E k \in DOMAIN attributes : attributes[k].name = name
    THEN CHOOSE k \in DOMAIN attributes :
            /\ attributes[k].name = name
            /\ \A j \in DOMAIN attributes : attributes[j].name = name => k <= j
    ELSE 0

Panic == [kind |-> "panic"]

\* the inner loop: bytes[attribute_offset..attribute_offset + attribute_size]
\* .copy_from_slice(vertex_slice) for chunk i (counted from 1); the range must lie in
\* bytes and the slice must have the length of the range, or the call panics
RECURSIVE copy_chunks(_, _, _, _, _, _)
copy_chunks(bytes, cs, i, stride, offset, size) ==
    IF i > Len(cs) THEN [kind |-> "Ok", bytes |-> bytes]
    ELSE LET attribute_offset == stride * (i - 1) + offset
         IN  IF attribute_offset + size > Len(bytes) \/ Len(cs[i]) # size
             THEN Panic
             ELSE copy_chunks(
                     [b \in DOMAIN bytes |->
                         IF b > attribute_offset /\ b <= attribute_offset + size
                         THEN cs[i][b - attribute_offset] ELSE bytes[b]],
                     cs, i + 1, stride, offset, size)

\* the outer loop over vertex_buffer_descriptor.attributes, from attribute j on
RECURSIVE for_attributes(_, _, _, _)
for_attributes(mesh, descriptor, j, bytes) ==
    IF j > Len(descriptor.attributes) THEN [kind |-> "Ok", bytes |-> bytes]
    ELSE LET vertex_attribute == descriptor.attributes[j]
             k == find(mesh.attributes, vertex_attribute.name)
         IN  IF k = 0
             THEN [kind |-> "MissingVertexAttribute",
                   attribute_name |-> vertex_attribute.name]
             ELSE LET attribute_bytes == get_bytes(mesh.attributes[k].values)
                      attribute_size == VertexFormat_get_size(vertex_attribute.format)
                      copied == copy_chunks(bytes, chunks(attribute_bytes, attribute_size), 1,
                                            descriptor.stride, vertex_attribute.offset,
                                            attribute_size)
                  IN  IF copied.kind = "panic" THEN Panic
                      ELSE for_attributes(mesh, descriptor, j + 1, copied.bytes)

\* Mesh::get_vertex_buffer_bytes
get_vertex_buffer_bytes(mesh, descriptor) ==
    LET length == IF mesh.attributes = <<>> THEN 0
                  ELSE VertexAttributeValues_len(mesh.attributes[1].values)
        bytes == [b \in 1..(descriptor.stride * length) |-> 0]
    IN  for_attributes(mesh, descriptor, 1, bytes)

\* the meshes of the model: up to MaxAttrs attributes of any name and format, each with
\* up to MaxVerts elements; component c of element v of attribute k is the float
\* 3 * (v - 1) + (k - 1), the data of tests::test_get_vertex_bytes
AttributeShapes == [name : AttributeNames, variant : VertexFormats, len : 0..MaxVerts]

MeshOf(shape) ==
    [attributes |->
        [k \in DOMAIN shape |->
            [name |-> shape[k].name,
             values |-> [variant |-> shape[k].variant,
                         elems |-> [v \in 1..shape[k].len |->
                                      [c \in 1..Components(shape[k].variant) |->
                                          F32Bits(3 * (v - 1) + (k - 1))]]]]]]

SeqsUpTo(S, n) == UNION {[1..k -> S] : k \in 0..n}

Meshes == {MeshOf(shape) : shape \in SeqsUpTo(AttributeShapes, MaxAttrs)}

\* the vertex buffer descriptors of the model: attributes packed one after the other,
\* the stride their total size
RECURSIVE SizeBefore(_, _)
SizeBefore(fields, j) ==
    IF j <= 1 THEN 0
    ELSE SizeBefore(fields, j - 1) + VertexFormat_get_size(fields[j - 1].format)

DescriptorOf(fields) ==
    [stride |-> SizeBefore(fields, Len(fields) + 1),
     attributes |-> [j \in DOMAIN fields |->
                        [name |-> fields[j].name, format |-> fields[j].format,
                         offset |-> SizeBefore(fields, j)]]]

Descriptors ==
    {DescriptorOf(fields) :
        fields \in SeqsUpTo([name : AttributeNames, format : VertexFormats], MaxAttrs)}

NotCalled == [kind |-> "none"]

\* mesh.get_vertex_buffer_bytes(descriptor) is called and returns or panics
call_get_vertex_buffer_bytes ==
    /\ vertex_call.result = NotCalled
    /\ LET result == get_vertex_buffer_bytes(vertex_call.mesh, vertex_call.descriptor)
       IN  /\ vertex_call' = [vertex_call EXCEPT !.result = result]
           /\ last' = Op("get_vertex_buffer_bytes", MainThread, 0, 0, 0, result.kind, "none")
    /\ UNCHANGED <<handleVars, registryVars>>

InitHandles ==
    /\ HANDLE_ALLOCATOR = HANDLE_ALLOCATOR_new
    /\ allocated = <<>>
    /\ pending = [t \in Threads |-> NoId]
    /\ handles = [s \in Slots |-> NoHandle]
    /\ chan = <<>>
    /\ log = [t \in Threads |-> <<>>]
    /\ last = NoOp

\* one thread, every handle operation, every type tag
Init ==
    /\ InitHandles
    /\ resources = {AssetServer}
    /\ registrations = [k \in {} |-> k]
    /\ storage = [T \in AssetTypes |-> 0]
    /\ register_calls = {}
    /\ vertex_call = [mesh |-> MeshOf(<<>>), descriptor |-> DescriptorOf(<<>>),
                      result |-> NotCalled]

\* the operations that signal the owner or advance the allocator
SignalStep(t, Ts) ==
    \/ allocate(t)
    \/ \E T \in Ts : new_handle(t, T)
    \/ \E m \in Ts : from_resources(t, m)
    \/ \E s \in Slots : clone(t, s)
    \/ \E s \in Slots, U \in Ts : as_handle(t, s, U)
    \/ \E s \in Slots : drop(t, s)
    \/ \E s \in Slots, v \in Slots : set(t, s, v)

\* the conversions between Handle<T> and HandleUntyped
ConvertStep(t, Ts) ==
    \/ from_resources(t, Untyped)
    \/ \E s \in Slots : into_untyped(t, s)
    \/ \E s \in Slots, T \in Ts : into_typed(t, s, T)

Next ==
    \/ SignalStep(MainThread, HandleTypes)
    \/ ConvertStep(MainThread, HandleTypes)

Spec == Init /\ [][Next]_vars

\* two threads sharing handles of one asset type
NextThreads == \E t \in Threads : SignalStep(t, {"Mesh"})

SpecThreads == Init /\ [][NextThreads]_vars

\* startup registration, context set-up and type-erased lookups
NextRegistry ==
    \/ \E T \in AssetTypes : register(T)
    \/ \E T \in AssetTypes : insert_resource(T)
    \/ \E ty \in TypeIds : get_storage(ty)

SpecRegistry == Init /\ [][NextRegistry]_vars

\* any mesh of the model is packed for any descriptor of the model
InitMesh ==
    /\ InitHandles
    /\ resources = {AssetServer}
    /\ registrations = [k \in {} |-> k]
    /\ storage = [T \in AssetTypes |-> 0]
    /\ register_calls = {}
    /\ \E m \in Meshes, d \in Descriptors :
          vertex_call = [mesh |-> m, descriptor |-> d, result |-> NotCalled]

NextMesh == call_get_vertex_buffer_bytes

SpecMesh == InitMesh /\ [][NextMesh]_vars

(* ------------------------- derived quantities ------------------------- *)
Range(f) == {f[k] : k \in DOMAIN f}

\* the ids that were ever handed out or signalled
IdsSeen == {DEFAULT_HANDLE_ID} \cup Range(allocated) \cup {chan[k].id : k \in DOMAIN chan}

IsSignal(k, kind, X) == chan[k].op = kind /\ chan[k].id = X

\* the owner's count for X after the first k signals of the channel
CountAt(k, X) ==
    Cardinality({j \in 1..k : IsSignal(j, "AddReference", X)})
      - Cardinality({j \in 1..k : IsSignal(j, "RemoveReference", X)})

Adds(X) == Cardinality({j \in DOMAIN chan : IsSignal(j, "AddReference", X)})
Removes(X) == Cardinality({j \in DOMAIN chan : IsSignal(j, "RemoveReference", X)})
Count(X) == CountAt(Len(chan), X)

\* the handles currently held for X
Live(X) == Cardinality({s \in Slots : handles[s] # NoHandle /\ handles[s].id = X})

\* the signals that brought the owner's count for X to zero / away from zero
ZeroReached(X) ==
    {k \in DOMAIN chan : IsSignal(k, "RemoveReference", X) /\ CountAt(k, X) = 0}
Revived(X) ==
    {k \in DOMAIN chan : IsSignal(k, "AddReference", X) /\ CountAt(k - 1, X) = 0}
SignalsFor(X) == {k \in DOMAIN chan : chan[k].id = X}

\* the signals thread t sent, in channel order
ThreadSignals(t) ==
    LET mine == SelectSeq(chan, LAMBDA m : m.by = t)
    IN  [k \in DOMAIN mine |-> Sig(mine[k].op, mine[k].id)]

(* ------------------------------ claims -------------------------------- *)

\* C1: any two calls of allocate(), sequential or interleaved across threads, return
\* distinct ids; no call returns the reserved sentinel id; an id is never returned again,
\* also not after every handle holding it was dropped.
AllocateUnique ==
    /\ \A i, j \in DOMAIN allocated : i # j => allocated[i] # allocated[j]
    /\ \A i \in DOMAIN allocated : allocated[i] # DEFAULT_HANDLE_ID

\* two allocations by different threads, the second after the first id's only handle
\* was dropped
AllocateUniqueWitness ==
    /\ Len(allocated) >= 2
    /\ last.op = "allocate"
    /\ Live(allocated[1]) = 0
    /\ Removes(allocated[1]) >= 1
    /\ \E k \in DOMAIN chan : chan[k].id = allocated[1] /\ chan[k].by # last.by

\* C2: after constructing handles that share an id X (allocation, default, clone) and
\* dropping all of them, as many AddReference(X) as RemoveReference(X) were emitted, and
\* the owner's count for X reached zero exactly once per such round, on the last
\* RemoveReference.
RefcountBalance ==
    \A X \in IdsSeen :
        /\ Live(X) = 0 =>
              /\ Adds(X) = Removes(X)
              /\ Cardinality(ZeroReached(X)) = Cardinality(Revived(X))
              /\ \A k \in SignalsFor(X) :
                    (\A j \in SignalsFor(X) : j <= k) => k \in ZeroReached(X)
        /\ Live(X) > 0 => Cardinality(ZeroReached(X)) = Cardinality(Revived(X)) - 1

\* an allocated id held by several handles, all dropped again: zero was reached once
RefcountBalanceWitness ==
    \E X \in Range(allocated) :
        /\ Live(X) = 0
        /\ Adds(X) >= 2
        /\ Cardinality(ZeroReached(X)) = 1

\* C3: while a typed or untyped handle for X is held, the owner's count for X, computed
\* from the signals emitted so far, is greater than zero; the count is never negative.
HeldImpliesCounted ==
    /\ \A s \in LiveSlots : Count(handles[s].id) > 0
    /\ \A X \in IdsSeen : \A k \in 0..Len(chan) : CountAt(k, X) >= 0

\* a handle of X was just dropped while a re-tagged or converted handle of X is still held
HeldImpliesCountedWitness ==
    /\ last.op = "drop"
    /\ \E s \in LiveSlots : handles[s].id = last.id /\ handles[s].marker = Untyped
    /\ Removes(last.id) >= 1

\* C4 (as stated): as_handle::<U>() allocates no id and sends no signal -- the channel
\* and the allocator counter are unchanged by the call.
AsHandleSendsNothing ==
    [][last'.op = "as_handle" =>
          /\ chan' = chan
          /\ HANDLE_ALLOCATOR' = HANDLE_ALLOCATOR
          /\ allocated' = allocated]_vars

\* C4 (amended): as_handle::<U>() allocates no id; it clones the inner handle, so it
\* sends exactly one AddReference for the handle's id and no RemoveReference.
AsHandleSendsOneAdd ==
    [][last'.op = "as_handle" =>
          /\ HANDLE_ALLOCATOR' = HANDLE_ALLOCATOR
          /\ allocated' = allocated
          /\ handles[last'.src] # NoHandle
          /\ chan' = Append(chan, RefOp("AddReference", handles[last'.src].id, last'.by))]_vars

\* a Handle<T> was re-tagged as a Handle<U> of another type
AsHandleWitness ==
    /\ last.op = "as_handle"
    /\ handles[last.src] # NoHandle
    /\ handles[last.dst] # NoHandle
    /\ handles[last.dst].marker # handles[last.src].marker

\* C5: default construction (from_resources) of a Handle<T> or a HandleUntyped yields a
\* handle bound to the sentinel id 1, whatever was allocated before, and sends exactly
\* one AddReference for the sentinel id.
DefaultIsSentinel ==
    [][last'.op = "from_resources" =>
          /\ handles[last'.dst] = NoHandle
          /\ handles'[last'.dst] # NoHandle
          /\ id(handles'[last'.dst]) = DEFAULT_HANDLE_ID
          /\ \A s \in Slots \ {last'.dst} : handles'[s] = handles[s]
          /\ chan' = Append(chan, RefOp("AddReference", DEFAULT_HANDLE_ID, last'.by))
          /\ HANDLE_ALLOCATOR' = HANDLE_ALLOCATOR]_vars

\* a default handle was built after the allocator had handed out ids
DefaultIsSentinelWitness ==
    /\ last.op = "from_resources"
    /\ Len(allocated) >= 1
    /\ HANDLE_ALLOCATOR > HANDLE_ALLOCATOR_new
    /\ \E s \in LiveSlots : handles[s].id = allocated[1]

\* C6: every clone sends exactly one AddReference(id), every drop exactly one
\* RemoveReference(id), and the signals of one thread are on the channel in the order in
\* which the thread performed its operations, whatever the other thread does.
SignalsInProgramOrder == \A t \in Threads : ThreadSignals(t) = log[t]

CloneDropSignalOnce ==
    /\ []SignalsInProgramOrder
    /\ [][/\ last'.op = "clone" =>
                chan' = Append(chan, RefOp("AddReference", handles[last'.src].id, last'.by))
          /\ last'.op = "drop" =>
                chan' = Append(chan, RefOp("RemoveReference", handles[last'.src].id, last'.by))
         ]_vars

\* the two threads' clones and drops alternate on the channel
CloneDropSignalOnceWitness ==
    /\ Len(chan) >= 4
    /\ chan[1].by # chan[2].by
    /\ chan[2].by # chan[3].by
    /\ chan[3].by # chan[4].by
    /\ \A t \in Threads : \E k \in DOMAIN log[t] : log[t][k].op = "RemoveReference"
    /\ last.op = "drop"

\* C7: converting a Handle<T> into a HandleUntyped or back consumes the source, yields a
\* handle with the same id and sends no signal; the number of handles held for the id is
\* the same before and after.
ConversionMoves ==
    [][last'.op \in {"into_untyped", "into_typed"} =>
          /\ chan' = chan
          /\ HANDLE_ALLOCATOR' = HANDLE_ALLOCATOR
          /\ handles[last'.src] # NoHandle
          /\ handles'[last'.dst] # NoHandle
          /\ id(handles'[last'.dst]) = id(handles[last'.src])
          /\ LiveSlots' = LiveSlots
          /\ \A X \in IdsSeen : Live(X)' = Live(X)]_vars

\* an untyped handle obtained from a Handle<T> was converted back to a typed handle
ConversionMovesWitness ==
    /\ last.op = "into_typed"
    /\ handles[last.dst].marker \in HandleTypes
    /\ handles[last.dst].id # DEFAULT_HANDLE_ID
    /\ Count(handles[last.dst].id) = 1

\* C8: equality and hash of handles depend on the id only: handles with the same id are
\* equal and hash alike whatever their types, handles with different ids are unequal, and
\* as_handle::<U>() keeps the id.
IdentityOnlyEquality ==
    /\ \A a, b \in LiveSlots :
          /\ id(handles[a]) = id(handles[b]) =>
                /\ Handle_eq(handles[a], handles[b])
                /\ Handle_hash(handles[a]) = Handle_hash(handles[b])
          /\ id(handles[a]) # id(handles[b]) => ~Handle_eq(handles[a], handles[b])
    /\ (last.op = "as_handle" /\ handles[last.src] # NoHandle /\ handles[last.dst] # NoHandle)
          => id(handles[last.dst]) = id(handles[last.src])

\* a Handle<Mesh> and its re-tagged Handle<Texture> are held together with a handle of
\* another id
IdentityOnlyEqualityWitness ==
    /\ last.op = "as_handle"
    /\ handles[last.src] # NoHandle
    /\ handles[last.dst] # NoHandle
    /\ handles[last.src].marker # handles[last.dst].marker
    /\ \E s \in LiveSlots : handles[s].id # handles[last.src].id

\* the type whose identifier is ty
TypeOf(ty) == CHOOSE T \in AssetTypes : AssetTypeId(T) = ty

\* C9: get_storage with a type identifier for which register was never called fails with
\* UnregisteredAssetType, does not invoke the operation and leaves the registry and
\* every storage unchanged.
UnregisteredLookupFails ==
    [][(last'.op = "get_storage" /\ TypeOf(last'.id) \notin register_calls) =>
          /\ last'.result = "UnregisteredAssetType"
          /\ last'.invoked = "none"
          /\ registrations' = registrations
          /\ storage' = storage
          /\ resources' = resources]_vars

\* a lookup of a type that was never registered failed while other types are registered
\* and their storages are present
UnregisteredLookupFailsWitness ==
    /\ last.op = "get_storage"
    /\ last.result = "UnregisteredAssetType"
    /\ TypeOf(last.id) \notin register_calls
    /\ Cardinality(register_calls) >= 2
    /\ Assets(TypeOf(last.id)) \in resources

\* the lookup that just ran found a registration whose storage is not in the context
StorageAbsent ==
    /\ last.op = "get_storage"
    /\ last.id \in DOMAIN registrations
    /\ Assets(registrations[last.id].get_assets_storage_fn) \notin resources

\* C10 (as stated): with a registration but no storage in the context, the fetch function
\* returns a recoverable StorageUnavailable failure, without invoking the operation and
\* without panicking.
StorageAbsentIsReported ==
    StorageAbsent => (last.result = "StorageUnavailable" /\ last.invoked = "none")

\* C10 (amended): with a registration but no storage in the context, the fetch function
\* panics ("Asset storage not found") without invoking the operation; no
\* StorageUnavailable failure is returned.
StorageAbsentPanics ==
    StorageAbsent =>
        /\ last.result = "panic"
        /\ last.invoked = "none"
        /\ \A T \in AssetTypes : Assets(T) \notin resources => storage[T] = 0

\* a registered type was looked up before its storage was inserted
StorageAbsentWitness ==
    /\ StorageAbsent
    /\ TypeOf(last.id) \in register_calls
    /\ last.result # "Ok"

\* C11: after register::<T>() and with T's storage in the context, every get_storage for
\* T's identifier invokes the operation exactly once, against T's storage and no other,
\* on every repeated call and whatever other types are registered before or after T.
RegisteredLookupInvokes ==
    [][(/\ last'.op = "get_storage"
        /\ TypeOf(last'.id) \in register_calls
        /\ Assets(TypeOf(last'.id)) \in resources) =>
          /\ last'.result = "Ok"
          /\ last'.invoked = TypeOf(last'.id)
          /\ storage' = [storage EXCEPT ![TypeOf(last'.id)] = @ + 1]
          /\ registrations' = registrations
          /\ resources' = resources]_vars

\* a repeated lookup of T succeeded while every type is registered and another type's
\* storage is present and untouched
RegisteredLookupInvokesWitness ==
    /\ last.op = "get_storage"
    /\ last.result = "Ok"
    /\ storage[TypeOf(last.id)] >= 2
    /\ register_calls = AssetTypes
    /\ \E T \in AssetTypes : Assets(T) \in resources /\ storage[T] = 0

\* C12: once a registration is stored under an identifier, no later register call changes
\* it; calling register::<T>() a second time leaves the registry as it was after the
\* first call.
RegistrationStable ==
    [][last'.op = "register" =>
          /\ \A k \in DOMAIN registrations :
                k \in DOMAIN registrations' /\ registrations'[k] = registrations[k]
          /\ TypeOf(last'.id) \in register_calls => registrations' = registrations
          /\ registrations'[last'.id] = AssetRegistration_of(TypeOf(last'.id))]_vars

\* register::<T>() was called again after T had been registered and looked up, with
\* other types registered too
RegistrationStableWitness ==
    /\ last.op = "register"
    /\ storage[TypeOf(last.id)] >= 1
    /\ Cardinality(register_calls) >= 2
    /\ DOMAIN registrations = {AssetTypeId(T) : T \in register_calls}

\* the descriptor attributes for which the mesh has no attribute of that name
AbsentAttributes(mesh, descriptor) ==
    {j \in DOMAIN descriptor.attributes :
        find(mesh.attributes, descriptor.attributes[j].name) = 0}

\* the bytes of the buffer at [v * stride + offset, v * stride + offset + size) are the
\* bytes of element v (counted from 0) of the mesh attribute
ElementAt(bytes, v, stride, vertex_attribute, mesh_attribute) ==
    LET from == v * stride + vertex_attribute.offset
        size == VertexFormat_get_size(vertex_attribute.format)
    IN  /\ v < VertexAttributeValues_len(mesh_attribute.values)
        /\ from + size <= Len(bytes)
        /\ SubSeq(bytes, from + 1, from + size)
              = ElementBytes(mesh_attribute.values.elems[v + 1])

\* C13: for every mesh and every descriptor whose attributes are all in the mesh by name,
\* get_vertex_buffer_bytes returns Ok with stride * n bytes (n the element count of the
\* mesh's first attribute) that hold, for each vertex v < n and each descriptor attribute
\* a, the bytes of element v of the mesh attribute named a.name at v * stride + a.offset;
\* if a descriptor attribute is not in the mesh it returns MissingVertexAttribute naming it.
VertexBytesLaidOut ==
    vertex_call.result # NotCalled =>
        LET mesh == vertex_call.mesh
            descriptor == vertex_call.descriptor
            result == vertex_call.result
            n == IF mesh.attributes = <<>> THEN 0
                 ELSE VertexAttributeValues_len(mesh.attributes[1].values)
        IN  IF AbsentAttributes(mesh, descriptor) = {}
            THEN /\ result.kind = "Ok"
                 /\ Len(result.bytes) = descriptor.stride * n
                 /\ \A v \in 0..(n - 1), j \in DOMAIN descriptor.attributes :
                       ElementAt(result.bytes, v, descriptor.stride, descriptor.attributes[j],
                                 mesh.attributes[find(mesh.attributes,
                                                      descriptor.attributes[j].name)])
            ELSE /\ result.kind = "MissingVertexAttribute"
                 /\ \E j \in AbsentAttributes(mesh, descriptor) :
                       result.attribute_name = descriptor.attributes[j].name

TypeOK ==
    /\ HANDLE_ALLOCATOR \in Nat
    /\ Len(chan) <= MaxOps
    /\ \A s \in Slots : handles[s] = NoHandle \/ handles[s].marker \in Markers
====
